---- MODULE Spec2Model ----
(***************************************************************************)
(* Model of tools/slashc.py, the slash-command compiler and runner.        *)
(*                                                                         *)
(* A Markdown file is a sequence of tokens.  Each token is a run of        *)
(* characters that the regular expressions of parse_markdown treat as a    *)
(* unit: the three-dash marker, the triple-backtick marker, a newline, a   *)
(* blank, or a word.  The regular expressions are evaluated on the token   *)
(* sequence the way Python's re module evaluates them on the characters.   *)
(***************************************************************************)
EXTENDS Integers, Sequences, FiniteSets, TLC

VARIABLES
    cmd,         \* "parse" (parse_markdown alone), "validate" or "run"
    files,       \* the files named on the command line: "missing" or a document
    outputs,     \* front_matter['outputs'] of the file given to run
    idx,         \* the file being handled (main's loop variable)
    pc,          \* where main / handle_file stands
    exitStatus,  \* Running, or the status the process ended with
    steps,       \* the steps performed so far, in order
    parsed,      \* what parse_markdown returned or how it failed
    scratch,     \* TRUE iff .out/tmp/<slash>.sh exists
    script,      \* the lines compile_script wrote
    hostFiles,   \* the paths, relative to the working directory, that exist
    logFile,     \* TRUE iff .out/logs/<slash>.log was written
    childCode,   \* the return code of docker run, NoChild before it ran
    reported     \* the declared outputs reported missing, in order

vars == <<cmd, files, outputs, idx, pc, exitStatus, steps, parsed, scratch,
          script, hostFiles, logFile, childCode, reported>>

----------------------------------------------------------------------------
(* Bounds *)

MaxItems == 3        \* blocks after the front-matter of a document
MaxFiles == 2        \* files given to validate

----------------------------------------------------------------------------
(* Tokens *)

DASH  == "---"
FENCE == "FENCE"   \* the triple-backtick marker
NL    == "NL"      \* a newline
SP    == "SP"      \* a blank

IsWs(t) == t \in {NL, SP}

NameTokens == {"name=a", "name=b"}

\* Greedy \s* from p: the first position from p on that holds no whitespace
\* (Len + 1 if there is none).
RECURSIVE WsEnd(_, _)
WsEnd(s, p) == IF p > Len(s) \/ ~IsWs(s[p]) THEN p ELSE WsEnd(s, p + 1)

\* The last position up to p that holds no whitespace (0 if there is none).
RECURSIVE WsStart(_, _)
WsStart(s, p) == IF p < 1 \/ ~IsWs(s[p]) THEN p ELSE WsStart(s, p - 1)

\* The anchor ^ under re.MULTILINE: the start of the text or just after a newline.
LineStart(s, p) == p = 1 \/ (p > 1 /\ p <= Len(s) + 1 /\ s[p - 1] = NL)

\* str.strip()
Strip(s) == SubSeq(s, WsEnd(s, 1), WsStart(s, Len(s)))

\* seg.strip().startswith(word)
StartsWith(seg, word) == Strip(seg) # <<>> /\ Strip(seg)[1] = word

----------------------------------------------------------------------------
(* Documents.  A document is a front-matter block followed by blocks; the  *)
(* structure is what its author wrote, Render is the text of the file.     *)

FrontMatterKinds == {"ok", "none", "empty", "badyaml"}

Bodies == [echo   |-> <<"echo", NL>>,
           assign |-> <<"name=b", NL>>,
           yaml   |-> <<"yaml", NL>>,
           note   |-> <<"note", NL>>]

BashItems  == [kind : {"bash"}, name : NameTokens \cup {""}, body : {"echo", "assign"}]
YamlItems  == [kind : {"yamlfence"}, name : {""}, body : {"note"}]
FenceItems == [kind : {"fence"}, name : {""}, body : {"echo", "yaml"}]
ProseItems == [kind : {"prose"}, name : {""}, body : {"note"}]
DashItems  == [kind : {"dash"}, name : {""}, body : {"note", "yaml"}]

Items == BashItems \cup YamlItems \cup FenceItems \cup ProseItems \cup DashItems

ItemSeqs == UNION {[1..n -> Items] : n \in 0..MaxItems}

Docs == [fm : FrontMatterKinds, items : ItemSeqs]

RenderFrontMatter(fm) ==
    CASE fm = "ok"      -> <<DASH, NL, "fm", NL, DASH, NL>>
      [] fm = "empty"   -> <<DASH, NL, DASH, NL>>
      [] fm = "badyaml" -> <<DASH, NL, "{", NL, DASH, NL>>
      [] OTHER          -> <<>>

RenderItem(it) ==
    CASE it.kind = "bash" ->
            <<FENCE, "bash">> \o (IF it.name = "" THEN <<>> ELSE <<SP, it.name>>)
              \o <<NL>> \o Bodies[it.body] \o <<FENCE, NL>>
      [] it.kind = "yamlfence" -> <<FENCE, "yaml", NL>> \o Bodies[it.body] \o <<FENCE, NL>>
      [] it.kind = "fence"     -> <<FENCE, NL>> \o Bodies[it.body] \o <<FENCE, NL>>
      [] it.kind = "dash"      -> <<DASH, NL>> \o Bodies[it.body] \o <<DASH, NL>>
      [] OTHER                 -> Bodies[it.body]

RECURSIVE RenderItems(_)
RenderItems(its) ==
    IF its = <<>> THEN <<>> ELSE RenderItem(Head(its)) \o RenderItems(Tail(its))

Render(doc) == RenderFrontMatter(doc.fm) \o RenderItems(doc.items)

----------------------------------------------------------------------------
(* parse_markdown *)

\* Length of a match of  ---\s*\n  at p (0 if none): the marker, then the
\* whitespace up to the last newline of the whitespace run after it.
DashMarkerLen(s, p) ==
    IF p > Len(s) \/ s[p] # DASH THEN 0
    ELSE LET e   == WsEnd(s, p + 1)
             nls == {q \in (p + 1)..(e - 1) : s[q] = NL}
         IN  IF nls = {} THEN 0
             ELSE (CHOOSE q \in nls : \A r \in nls : q >= r) - p + 1

\* Length of a match of  \s*(fence)  at p (0 if none).
FenceMarkerLen(s, p) ==
    LET e == WsEnd(s, p)
    IN  IF e <= Len(s) /\ s[e] = FENCE THEN e - p + 1 ELSE 0

\* Length of a match of the split pattern at p; the alternatives in order.
MarkerLen(s, p) ==
    IF ~LineStart(s, p) THEN 0
    ELSE LET d == DashMarkerLen(s, p)
         IN  IF d > 0 THEN d ELSE FenceMarkerLen(s, p)

\* re.split: the text between the matches, scanning left to right.
RECURSIVE SplitFrom(_, _, _)
SplitFrom(s, p, segStart) ==
    IF p > Len(s) THEN <<SubSeq(s, segStart, Len(s))>>
    ELSE LET m == MarkerLen(s, p)
         IN  IF m > 0
             THEN <<SubSeq(s, segStart, p - 1)>> \o SplitFrom(s, p + m, p + m)
             ELSE SplitFrom(s, p + 1, segStart)

Split(s) == SplitFrom(s, 1, 1)

\* The line starts from a on where whitespace and then the marker follow.
Closers(s, a, marker) ==
    {q \in a..Len(s) : LineStart(s, q) /\ WsEnd(s, q) <= Len(s) /\ s[WsEnd(s, q)] = marker}

\* End (exclusive) of a match of  ^\s*M\s*.*?^\s*M\s*  (M the dashes) or of
\* ^\s*M.*?^\s*M\s*  (M the fence) at p; 0 if there is none.  The whitespace
\* after the opening dashes is taken greedily before the lazy body grows.
BlockMatchEnd(s, p, marker) ==
    IF ~LineStart(s, p) \/ WsEnd(s, p) > Len(s) \/ s[WsEnd(s, p)] # marker THEN 0
    ELSE LET a     == WsEnd(s, p) + 1
             w     == IF marker = DASH THEN WsEnd(s, a) ELSE a
             late  == Closers(s, w, marker)
             early == Closers(s, a, marker)
             q     == IF late # {} THEN CHOOSE x \in late : \A y \in late : x <= y
                      ELSE CHOOSE x \in early : \A y \in early : x >= y
         IN  IF early = {} THEN 0 ELSE WsEnd(s, WsEnd(s, q) + 1)

\* re.sub(pattern, '', s): every match removed, scanning left to right.
RECURSIVE RemoveBlocks(_, _, _)
RemoveBlocks(s, p, marker) ==
    IF p > Len(s) THEN <<>>
    ELSE LET e == BlockMatchEnd(s, p, marker)
         IN  IF e > 0 THEN RemoveBlocks(s, e, marker)
             ELSE <<s[p]>> \o RemoveBlocks(s, p + 1, marker)

ProseCheck(s) == RemoveBlocks(RemoveBlocks(s, 1, DASH), 1, FENCE)

\* yaml.safe_load raises on an unclosed flow mapping, loads the other texts.
YamlLoads(seg) == \A q \in 1..Len(seg) : seg[q] # "{"

\* A search that returns the last match in the segment.
NameMatchLast(header) ==
    LET hits == {q \in 1..Len(header) : header[q] \in NameTokens}
    IN  IF hits = {} THEN ""
        ELSE header[CHOOSE q \in hits : \A r \in hits : q >= r]

\* re.search(r'name=(\w+)', header): the first match in the segment, "" if none.
NameMatch(header) ==
    LET hits == {q \in 1..Len(header) : header[q] \in NameTokens}
    IN  IF hits = {} THEN ""
        ELSE header[CHOOSE q \in hits : \A r \in hits : q <= r]

Failure(e) == [err |-> e, fm |-> <<>>, blocks |-> <<>>]

\* The loop over parts from index i (parts[i - 1] in Python).
RECURSIVE Walk(_, _, _, _)
Walk(parts, i, bash_blocks, block_names) ==
    IF i > Len(parts) THEN
        IF bash_blocks = <<>> THEN Failure("NoExecutableBlocks")
        ELSE [err |-> "", fm |-> Strip(parts[2]), blocks |-> bash_blocks]
    ELSE IF StartsWith(parts[i], "yaml") THEN
        Walk(parts, i + 2, bash_blocks, block_names)
    ELSE IF StartsWith(parts[i], "bash") THEN
        LET block_name == NameMatch(Strip(parts[i]))
        IN  IF i + 1 > Len(parts) THEN Failure("IncompleteBlock")
            ELSE IF block_name = "" THEN Failure("MissingBlockName")
            ELSE IF block_name \in block_names THEN Failure("DuplicateBlockName")
            ELSE Walk(parts, i + 2, Append(bash_blocks, Strip(parts[i + 1])),
                      block_names \cup {block_name})
    ELSE IF Strip(parts[i]) # <<>> THEN Failure("UnexpectedContent")
    ELSE Walk(parts, i + 1, bash_blocks, block_names)

parse_markdown(content) ==
    LET parts == Split(content)
    IN  IF Len(parts) < 3 \/ Strip(parts[2]) = <<>> THEN Failure("MissingFrontMatter")
        ELSE IF Strip(ProseCheck(content)) # <<>> THEN Failure("StrayContent")
        ELSE IF ~YamlLoads(parts[2]) THEN Failure("YamlParseError")
        ELSE Walk(parts, 3, <<>>, {})

----------------------------------------------------------------------------
(* The environment of main: the files, the declared outputs, the host.     *)

\* Documents given to validate and run.
RunDocs ==
    LET a == [kind |-> "bash", name |-> "name=a", body |-> "echo"]
        b == [kind |-> "bash", name |-> "name=b", body |-> "assign"]
        t == [kind |-> "prose", name |-> "", body |-> "note"]
    IN  { [fm |-> "ok", items |-> <<a>>],
          [fm |-> "ok", items |-> <<a, b>>],
          [fm |-> "ok", items |-> <<a, a>>],
          [fm |-> "ok", items |-> <<a, t>>] }

FileEntries ==
    [exists : {TRUE}, doc : RunDocs]
        \cup {[exists |-> FALSE, doc |-> [fm |-> "none", items |-> <<>>]]}

\* Paths front_matter['outputs'] may declare, in the order they are declared.
Declarable == <<"a.txt", "b.txt", "c.txt", ".out/a.txt">>

RECURSIVE SubLists(_)
SubLists(s) ==
    IF s = <<>> THEN {<<>>}
    ELSE LET rest == SubLists(Tail(s))
         IN  rest \cup {<<Head(s)>> \o r : r \in rest}

OutputLists == SubLists(Declarable)

\* Files of the working directory before the run; the source mount is
\* read-only, the container writes below .out alone.
CwdFiles   == {"a.txt", "b.txt", "c.txt"}
OutWrites  == {".out/a.txt", ".out/b.txt"}

\* subprocess.run's returncode: 0, the child's exit code, or -N for signal N.
ChildCodes == {0, 1, 2, 0 - 9}

\* The status of every sys.exit(1): the file or the environment was rejected.
FixedFailure == 1

\* A runner that ends with the fixed status whatever the child returned.
SysExitSentinel(n) == IF n = 0 THEN <<0>> ELSE <<FixedFailure>>

\* sys.exit(n): the status the parent sees is n modulo 256.
SysExit(n) == <<n % 256>>

Exited == exitStatus # <<>>

NotParsed == Failure("NotParsed")

Terminate(n) == /\ exitStatus' = SysExit(n)
                /\ pc' = "exited"

Doc == files[idx].doc

----------------------------------------------------------------------------
(* main and handle_file, one action per call *)

Init ==
    /\ cmd \in {"validate", "run"}
    /\ files \in UNION {[1..n -> FileEntries] :
                          n \in 1..(IF cmd = "run" THEN 1 ELSE MaxFiles)}
    /\ outputs \in (IF cmd = "run" THEN OutputLists ELSE {<<>>})
    /\ hostFiles \in (IF cmd = "run" THEN SUBSET CwdFiles ELSE {{}})
    /\ idx = 1
    /\ pc = "load_schema"
    /\ exitStatus = <<>>
    /\ steps = <<>>
    /\ parsed = NotParsed
    /\ scratch = FALSE
    /\ script = <<>>
    /\ logFile = FALSE
    /\ childCode = <<>>
    /\ reported = <<>>

\* load_schema: exit 1 when the schema file is absent.
LoadSchema ==
    /\ pc = "load_schema"
    /\ \E present \in BOOLEAN :
          IF present THEN pc' = "check_file" /\ UNCHANGED exitStatus
          ELSE Terminate(FixedFailure)
    /\ UNCHANGED <<cmd, files, outputs, idx, steps, parsed, scratch, script,
                   hostFiles, logFile, childCode, reported>>

\* main: the existence test before handle_file.
CheckFile ==
    /\ pc = "check_file"
    /\ IF files[idx].exists
       THEN pc' = "parse" /\ steps' = Append(steps, "found") /\ UNCHANGED exitStatus
       ELSE Terminate(FixedFailure) /\ UNCHANGED steps
    /\ UNCHANGED <<cmd, files, outputs, idx, parsed, scratch, script,
                   hostFiles, logFile, childCode, reported>>

\* handle_file: the call of parse_markdown.
Parse ==
    /\ pc = "parse"
    /\ cmd # "parse"
    /\ parsed' = parse_markdown(Render(Doc))
    /\ IF parsed'.err = ""
       THEN pc' = "validate" /\ steps' = Append(steps, "parsed") /\ UNCHANGED exitStatus
       ELSE Terminate(FixedFailure) /\ UNCHANGED steps
    /\ UNCHANGED <<cmd, files, outputs, idx, scratch, script,
                   hostFiles, logFile, childCode, reported>>

\* handle_file: validate_front_matter, and the return of mode validate.
\* In main, the loop goes to the next file; after the last one main returns.
Validate ==
    /\ pc = "validate"
    /\ \E valid \in BOOLEAN :
          IF ~valid THEN Terminate(FixedFailure) /\ UNCHANGED <<steps, idx>>
          ELSE /\ steps' = Append(steps, "validated")
               /\ IF cmd = "run" THEN pc' = "compile" /\ UNCHANGED <<exitStatus, idx>>
                  ELSE IF idx < Len(files)
                       THEN pc' = "check_file" /\ idx' = idx + 1 /\ UNCHANGED exitStatus
                       ELSE Terminate(0) /\ UNCHANGED idx
    /\ UNCHANGED <<cmd, files, outputs, parsed, scratch, script,
                   hostFiles, logFile, childCode, reported>>

\* The list compile_script joins with newlines: the preamble, then each block
\* followed by an empty line.
RECURSIVE BlockLines(_)
BlockLines(blocks) ==
    IF blocks = <<>> THEN <<>>
    ELSE <<Head(blocks), <<>>>> \o BlockLines(Tail(blocks))

ScriptLines(blocks) ==
    <<(<<"#!/bin/bash">>), (<<"set -euxo pipefail">>), <<>>>> \o BlockLines(blocks)

\* compile_script: write_text raises when .out/tmp does not exist, and the
\* uncaught exception ends the process with status 1.
Compile ==
    /\ pc = "compile"
    /\ \E tmpDir \in BOOLEAN :
          IF tmpDir
          THEN /\ scratch' = TRUE
               /\ script' = ScriptLines(parsed.blocks)
               /\ steps' = Append(steps, "compiled")
               /\ pc' = "docker"
               /\ UNCHANGED exitStatus
          ELSE Terminate(FixedFailure) /\ UNCHANGED <<scratch, script, steps>>
    /\ UNCHANGED <<cmd, files, outputs, idx, parsed,
                   hostFiles, logFile, childCode, reported>>

\* A runner without check=True: a non-zero return code raises nothing.
DockerRunUnchecked ==
    /\ pc = "docker"
    /\ logFile' = TRUE
    /\ \/ /\ Terminate(FixedFailure)
          /\ UNCHANGED <<childCode, hostFiles, steps>>
       \/ \E c \in ChildCodes, written \in SUBSET OutWrites :
             /\ childCode' = <<c>>
             /\ hostFiles' = hostFiles \cup written
             /\ pc' = "verify" /\ steps' = Append(steps, "executed")
             /\ UNCHANGED exitStatus
    /\ UNCHANGED <<cmd, files, outputs, idx, parsed, scratch, script, reported>>

\* run_docker up to the return of subprocess.run: docker is absent
\* (FileNotFoundError, exit 1), or the child returns code c having written
\* some files below .out; a non-zero c is CalledProcessError, sys.exit(c).
DockerRun ==
    /\ pc = "docker"
    /\ logFile' = TRUE
    /\ \/ /\ Terminate(FixedFailure)
          /\ UNCHANGED <<childCode, hostFiles, steps>>
       \/ \E c \in ChildCodes, written \in SUBSET OutWrites :
             /\ childCode' = <<c>>
             /\ hostFiles' = hostFiles \cup written
             /\ IF c = 0
                THEN pc' = "verify" /\ steps' = Append(steps, "executed")
                     /\ UNCHANGED exitStatus
                ELSE Terminate(c) /\ UNCHANGED steps
    /\ UNCHANGED <<cmd, files, outputs, idx, parsed, scratch, script, reported>>

\* The file of the host directory mounted at /out that a declared path names:
\* a script writing /out/a.txt writes .out/a.txt of the working directory.
OutDirPath(o) ==
    CASE o = "a.txt" -> ".out/a.txt"
      [] o = "b.txt" -> ".out/b.txt"
      [] o = "c.txt" -> ".out/c.txt"
      [] OTHER       -> o

\* A verification that looks for the outputs below the output mount.
OutputExistsInOutDir(output, host) == OutDirPath(output) \in host

\* Path(output).exists(), relative to the working directory.
OutputExists(output, host) == output \in host

\* A verification loop that stops at the first missing output.
VerifyLoopShortCircuit(outs, host, printed) ==
    LET miss == {q \in 1..Len(outs) : ~OutputExists(outs[q], host)}
    IN  IF miss = {} THEN printed
        ELSE Append(printed, outs[CHOOSE q \in miss : \A r \in miss : q <= r])

\* The verification loop: every output is tested, each missing one is printed.
RECURSIVE VerifyLoop(_, _, _)
VerifyLoop(outs, host, printed) ==
    IF outs = <<>> THEN printed
    ELSE IF ~OutputExists(Head(outs), host)
         THEN VerifyLoop(Tail(outs), host, Append(printed, Head(outs)))
         ELSE VerifyLoop(Tail(outs), host, printed)

\* A verification that removes the compiled script before it fails.
VerifyOutputsUnlinks ==
    /\ pc = "verify"
    /\ reported' = VerifyLoop(outputs, hostFiles, <<>>)
    /\ IF reported' # <<>>
       THEN Terminate(FixedFailure) /\ scratch' = FALSE /\ UNCHANGED steps
       ELSE pc' = "cleanup" /\ steps' = Append(steps, "verified")
            /\ UNCHANGED <<exitStatus, scratch>>
    /\ UNCHANGED <<cmd, files, outputs, idx, parsed, script,
                   hostFiles, logFile, childCode>>

\* run_docker after a zero return code: exit 1 unless all outputs exist.
VerifyOutputs ==
    /\ pc = "verify"
    /\ reported' = VerifyLoop(outputs, hostFiles, <<>>)
    /\ IF reported' # <<>>
       THEN Terminate(FixedFailure) /\ UNCHANGED steps
       ELSE pc' = "cleanup" /\ steps' = Append(steps, "verified") /\ UNCHANGED exitStatus
    /\ UNCHANGED <<cmd, files, outputs, idx, parsed, scratch, script,
                   hostFiles, logFile, childCode>>

\* handle_file: unlink the compiled script; main returns, status 0.
Cleanup ==
    /\ pc = "cleanup"
    /\ scratch' = FALSE
    /\ Terminate(0)
    /\ UNCHANGED <<cmd, files, outputs, idx, steps, parsed, script,
                   hostFiles, logFile, childCode, reported>>

Next ==
    \/ LoadSchema
    \/ CheckFile
    \/ Parse
    \/ Validate
    \/ Compile
    \/ DockerRun
    \/ VerifyOutputs
    \/ Cleanup

Spec == Init /\ [][Next]_vars

----------------------------------------------------------------------------
(* parse_markdown alone, on every document of the bounded set *)

InitParse ==
    /\ cmd = "parse"
    /\ files \in {<<[exists |-> TRUE, doc |-> d]>> : d \in Docs}
    /\ outputs = <<>>
    /\ hostFiles = {}
    /\ idx = 1
    /\ pc = "parse"
    /\ exitStatus = <<>>
    /\ steps = <<>>
    /\ parsed = NotParsed
    /\ scratch = FALSE
    /\ script = <<>>
    /\ logFile = FALSE
    /\ childCode = <<>>
    /\ reported = <<>>

ParseMarkdown ==
    /\ pc = "parse"
    /\ cmd = "parse"
    /\ parsed' = parse_markdown(Render(Doc))
    /\ pc' = "parsed"
    /\ UNCHANGED <<cmd, files, outputs, idx, exitStatus, steps, scratch, script,
                   hostFiles, logFile, childCode, reported>>

NextParse == ParseMarkdown

SpecParse == InitParse /\ [][NextParse]_vars

----------------------------------------------------------------------------
(* What a document is, read off its structure (not off its text) *)

Range(s) == {s[q] : q \in 1..Len(s)}

BashFences(doc) == SelectSeq(doc.items, LAMBDA it : it.kind = "bash")

\* Blocks that are neither the front-matter nor a bash or yaml fence.
IsStray(it) == it.kind \in {"prose", "fence", "dash"}

HasStray(doc) == \E q \in 1..Len(doc.items) : IsStray(doc.items[q])

AllNamed(doc) == \A q \in 1..Len(BashFences(doc)) : BashFences(doc)[q].name # ""

UniqueNames(doc) ==
    \A q, r \in 1..Len(BashFences(doc)) :
        (q # r /\ BashFences(doc)[q].name # "")
            => BashFences(doc)[q].name # BashFences(doc)[r].name

WellFormed(doc) ==
    /\ doc.fm = "ok"
    /\ ~HasStray(doc)
    /\ BashFences(doc) # <<>>
    /\ AllNamed(doc)
    /\ UniqueNames(doc)

\* The inner text of each bash fence, trimmed, in document order.
ReferenceBlocks(doc) ==
    [q \in 1..Len(BashFences(doc)) |-> Strip(Bodies[BashFences(doc)[q].body])]

IsStrayContent(e) == e \in {"StrayContent", "UnexpectedContent"}

IsPrefix(s, t) == Len(s) <= Len(t) /\ s = SubSeq(t, 1, Len(s))

Chain == <<"found", "parsed", "validated", "compiled", "executed", "verified">>

Missing == {o \in Range(outputs) : o \notin hostFiles}

----------------------------------------------------------------------------
(* Claims *)

\* C1: for every document with well-formed front-matter, one or more
\* uniquely-named bash fences and no stray prose, parse_markdown succeeds and
\* returns one block per bash fence, in document order, each the trimmed inner
\* text of its fence.
C1_BlocksAreFenceBodies ==
    (pc = "parsed" /\ WellFormed(Doc))
        => (parsed.err = "" /\ parsed.blocks = ReferenceBlocks(Doc))

\* C4: a document that is otherwise well-formed and has content outside the
\* front-matter and the bash fences (a paragraph, an extra block between dash
\* lines, a fence without a language tag) is rejected with StrayContent, and
\* parse_markdown returns no result for it.
C4_StrayContentRejected ==
    (pc = "parsed" /\ Doc.fm = "ok" /\ HasStray(Doc) /\ BashFences(Doc) # <<>>
       /\ AllNamed(Doc) /\ UniqueNames(Doc))
        => IsStrayContent(parsed.err)

\* C5: a bash fence whose header line carries no name= attribute makes
\* parse_markdown fail with MissingBlockName, whatever the body of the fence
\* contains (the document being otherwise well-formed).
C5_MissingNameRejected ==
    (pc = "parsed" /\ Doc.fm = "ok" /\ ~HasStray(Doc) /\ UniqueNames(Doc) /\ ~AllNamed(Doc))
        => parsed.err = "MissingBlockName"

\* C6: an otherwise well-formed document in which two bash fences carry the
\* same name fails with DuplicateBlockName, wherever the two fences stand, and
\* parse_markdown returns no block list for it.
C6_DuplicateNamesRejected ==
    (pc = "parsed" /\ Doc.fm = "ok" /\ ~HasStray(Doc) /\ AllNamed(Doc) /\ ~UniqueNames(Doc))
        => (parsed.err = "DuplicateBlockName" /\ parsed.blocks = <<>>)

\* C6 witness: two fences of one name with another fence between them were
\* parsed and rejected as duplicates.
C6_Witness ==
    /\ pc = "parsed"
    /\ Doc.fm = "ok" /\ ~HasStray(Doc) /\ AllNamed(Doc)
    /\ Len(Doc.items) = 3
    /\ Doc.items[1].kind = "bash" /\ Doc.items[3].kind = "bash"
    /\ Doc.items[1].name = Doc.items[3].name
    /\ Doc.items[2].name # Doc.items[1].name
    /\ parsed.err = "DuplicateBlockName"

\* C7: a document without a front-matter block (no block between dash lines
\* at all), also one made of well-formed named bash fences alone, fails with
\* MissingFrontMatter.
C7_NoFrontMatterRejected ==
    (pc = "parsed" /\ Doc.fm = "none"
       /\ \A q \in 1..Len(Doc.items) : Doc.items[q].kind # "dash")
        => parsed.err = "MissingFrontMatter"

\* C2 as claimed: a run ends with status 0 only if every declared output
\* exists in the host directory mounted at /out.
C2_SuccessMeansOutputsInOutDir ==
    (cmd = "run" /\ exitStatus = <<0>>)
        => \A o \in Range(outputs) : OutDirPath(o) \in hostFiles

\* C2 as amended: a run ends with status 0 only if the container returned 0
\* and every declared output path exists relative to the working directory;
\* with a.txt declared and absent there, the run that returned 0 ends with
\* status 1 even when the container wrote /out/a.txt.
C2_SuccessMeansOutputsInCwd ==
    /\ (cmd = "run" /\ exitStatus = <<0>>)
          => (childCode = <<0>> /\ \A o \in Range(outputs) : o \in hostFiles)
    /\ (cmd = "run" /\ Exited /\ childCode = <<0>>
          /\ "a.txt" \in Range(outputs) /\ "a.txt" \notin hostFiles)
          => exitStatus = <<FixedFailure>>

\* C2 witness: a run succeeded on two declared outputs, b.txt found in the
\* working directory (the output directory has no b.txt) and .out/a.txt, which
\* the container wrote.
C2_Witness ==
    /\ cmd = "run" /\ exitStatus = <<0>>
    /\ outputs = <<"b.txt", ".out/a.txt">>
    /\ ".out/b.txt" \notin hostFiles

\* C3: a run ends with status 0 only after the file was found, parsed,
\* validated and compiled, the container returned 0 and every declared output
\* was found, in this order; a failure at a step ends the run with a non-zero
\* status and no later step is performed.
C3_ExitZeroOnlyAfterFullChain ==
    cmd = "run" =>
        /\ IsPrefix(steps, Chain)
        /\ (Exited => pc = "exited")
        /\ (exitStatus = <<0>> =>
               /\ steps = Chain
               /\ files[1].exists
               /\ parsed.err = ""
               /\ script = ScriptLines(parsed.blocks)
               /\ childCode = <<0>>
               /\ Missing = {})
        /\ ((Exited /\ exitStatus # <<0>>) => steps # Chain)
        /\ (Len(steps) < 2 => (parsed = NotParsed \/ parsed.err # ""))
        /\ (Len(steps) < 4 => (script = <<>> /\ ~scratch /\ ~logFile /\ childCode = <<>>))
        /\ (Len(steps) < 5 => (reported = <<>> /\ childCode # <<0>>))

\* C3 witness: a run with declared outputs ended with status 0.
C3_Witness ==
    cmd = "run" /\ exitStatus = <<0>> /\ Len(outputs) >= 2

\* C8: after the container returned 0 the verification tests every declared
\* output: the reported paths are exactly the missing ones, in the order
\* declared, and the run fails iff one is missing.
C8_VerificationExhaustive ==
    (cmd = "run" /\ childCode = <<0>> /\ pc \in {"cleanup", "exited"})
        => /\ Range(reported) = Missing
           /\ reported = SelectSeq(outputs, LAMBDA o : o \in Missing)
           /\ (Missing # {} <=> (pc = "exited" /\ exitStatus = <<FixedFailure>>))

\* C8 witness: of the declared a, b, c the first and the last were missing
\* and both were reported.
C8_Witness ==
    /\ cmd = "run" /\ pc = "exited"
    /\ outputs = <<"a.txt", "b.txt", "c.txt">>
    /\ reported = <<"a.txt", "c.txt">>

\* C9 as claimed: when the container returns a non-zero code c, no output is
\* verified, the run ends with status c, and that status differs from the
\* fixed status of a rejected file.
C9_ChildCodeDistinguishable ==
    (cmd = "run" /\ Exited /\ \E c \in 1..255 : childCode = <<c>>)
        => /\ reported = <<>>
           /\ exitStatus = childCode
           /\ exitStatus # <<FixedFailure>>

\* C9 as amended: when the container returns a non-zero code c, no output is
\* verified and the run ends with status c; the status differs from the
\* fixed status of a rejected file iff c is not that status.
C9_ChildCodePropagated ==
    (cmd = "run" /\ Exited /\ \E c \in 1..255 : childCode = <<c>>)
        => /\ reported = <<>>
           /\ ~("executed" \in Range(steps))
           /\ exitStatus = childCode
           /\ (exitStatus # <<FixedFailure>> <=> childCode # <<FixedFailure>>)

\* C9 witness: the container returned 2 and the run ended with status 2.
C9_Witness ==
    cmd = "run" /\ childCode = <<2>> /\ exitStatus = <<2>>

\* C10: when a run ends, the compiled script is gone if the container
\* returned 0 and all outputs were found, and is still there if docker was
\* absent, the container failed or an output was missing; validate never
\* writes a script.
C10_ScratchDeletedOnlyOnSuccess ==
    /\ (cmd = "validate" => (~scratch /\ script = <<>>))
    /\ (cmd = "run" /\ Exited) =>
          /\ (exitStatus = <<0>> => (~scratch /\ script # <<>>))
          /\ ((childCode # <<>> /\ childCode # <<0>>) => scratch)
          /\ ((logFile /\ childCode = <<>>) => scratch)
          /\ (reported # <<>> => scratch)
          /\ (~scratch => (exitStatus = <<0>> \/ script = <<>>))

\* C10 witness: a run ended on a missing output and its script is still there.
C10_Witness ==
    cmd = "run" /\ Exited /\ reported # <<>> /\ scratch /\ script # <<>>

====
